---- MODULE Spec2Model ----
(***************************************************************************)
(* Feature-and-label pipeline of LePetitNicolas: the TF-IDF vectorizer,    *)
(* the feature table file it hands to the classifiers, and the four        *)
(* predict functions (tech, domain, country, resultat).                    *)
(*                                                                         *)
(* Text is modelled as a sequence of tokens: a file name, a column name, a *)
(* cell and a line of a CSV file are all token sequences, and a delimiter  *)
(* is a token of its own, so that writing a table with one delimiter and   *)
(* reading it with another is computed, not assumed.                       *)
(* Probabilities are integers in percent (0.5 is 50, 0.3 is 30).           *)
(***************************************************************************)
EXTENDS Integers, Sequences, FiniteSets, TLC

\* ------------------------------------------------------------------ bounds
\* largest number of files in data/processed/translated
MaxFiles == 3

\* ------------------------------------------------------------ text helpers
DOC == <<"doc">>
Zero == <<"0">>
One == <<"1">>
EmptyDF == [cols |-> <<>>, rows |-> <<>>]
NoFile == [exists |-> FALSE, lines |-> <<>>]

Range(s) == {s[i] : i \in 1..Len(s)}

\* index of the first column named c (0 when there is none)
ColIndex(cols, c) ==
  IF c \in Range(cols)
    THEN CHOOSE i \in 1..Len(cols) : cols[i] = c /\ \A j \in 1..(i - 1) : cols[j] # c
    ELSE 0

RECURSIVE Join(_, _)
\* the fields of one CSV line, separated by the delimiter token
Join(fields, sep) ==
  IF Len(fields) = 0 THEN <<>>
  ELSE IF Len(fields) = 1 THEN fields[1]
  ELSE fields[1] \o <<sep>> \o Join(Tail(fields), sep)

RECURSIVE Split(_, _)
\* the fields of a line cut at every occurrence of the delimiter token
Split(line, sep) ==
  IF \A i \in 1..Len(line) : line[i] # sep THEN <<line>>
  ELSE LET i == CHOOSE k \in 1..Len(line) :
                  line[k] = sep /\ \A j \in 1..(k - 1) : line[j] # sep
       IN <<SubSeq(line, 1, i - 1)>> \o Split(SubSeq(line, i + 1, Len(line)), sep)

\* pandas.DataFrame.to_csv(path, sep=sep, index=False): header line, then rows
to_csv(df, sep) ==
  [exists |-> TRUE,
   lines  |-> <<Join(df.cols, sep)>> \o [i \in 1..Len(df.rows) |-> Join(df.rows[i], sep)]]

\* pandas.read_csv(path, sep=sep) of an existing file
read_csv(file, sep) ==
  [cols |-> Split(file.lines[1], sep),
   rows |-> [i \in 1..(Len(file.lines) - 1) |-> Split(file.lines[i + 1], sep)]]

\* the default delimiter of DataFrame.to_csv
DefaultSep == ","
\* the delimiter every train_*, predict_* and evaluate passes to read_csv
ReaderSep == ";"

\* ------------------------------------------------------------- vectorizer
\* the n-grams the texts are made of, in the alphabetical order of
\* TfidfVectorizer.get_feature_names_out()
TermOrder == <<"energy", "solar", "wind">>

\* the files that may lie in data/processed/translated: name and n-grams
FilePool ==
  { [name |-> <<"a", ".", "txt">>,           text |-> {"energy", "solar"}],
    [name |-> <<"b", ".", "txt">>,           text |-> {"energy", "wind"}],
    [name |-> <<"a", ".", "b", ".", "txt">>, text |-> {"solar"}],
    [name |-> <<"c", ".", "md">>,            text |-> {"energy", "solar"}] }

Directories == {d \in SUBSET FilePool : Cardinality(d) <= MaxFiles}

\* the directories of the checkouts that come with a stored feature table
SyncedDirs ==
  {d \in Directories :
     {f.name : f \in d} \in { {}, {<<"c", ".", "md">>},
                              {<<"a", ".", "txt">>, <<"b", ".", "txt">>} }}

\* the orders in which os.listdir may return the files of a directory
Listings(d) ==
  {l \in [1..Cardinality(d) -> d] : \A i, j \in 1..Cardinality(d) : l[i] = l[j] => i = j}

\* fname.endswith(".txt")
endswith_txt(fname) ==
  Len(fname) >= 2 /\ fname[Len(fname) - 1] = "." /\ fname[Len(fname)] = "txt"

\* os.path.splitext(fname)[0]: cut at the last dot unless only dots precede it
splitext_root(fname) ==
  LET dots == {i \in 1..Len(fname) : fname[i] = "."}
  IN IF dots = {} THEN fname
     ELSE LET last == CHOOSE i \in dots : \A j \in dots : j <= i
          IN IF \E j \in 1..(last - 1) : fname[j] # "."
               THEN SubSeq(fname, 1, last - 1)
               ELSE fname

\* doc_id without the call of splitext
doc_id_keeps_ext(fname) == fname \o <<".", "pdf">>

\* the document id given to a text file (line 59)
doc_id(fname) == splitext_root(fname) \o <<".", "pdf">>

\* the docs list built by the reading loop (lines 52-59)
read_docs(listing) ==
  LET txt == SelectSeq(listing, LAMBDA f : endswith_txt(f.name))
  IN [i \in 1..Len(txt) |-> [doc |-> doc_id(txt[i].name), text |-> txt[i].text]]

\* TfidfVectorizer(min_df=2).fit: the terms found in at least min_df texts
min_df == 2
Vocabulary(docs) ==
  SelectSeq(TermOrder,
            LAMBDA t : Cardinality({i \in 1..Len(docs) : t \in docs[i].text}) >= min_df)

\* the TF-IDF weight of a term in a text: non-zero exactly when it occurs
Weight(text, t) == IF t \in text THEN One ELSE Zero

\* tfidf_df after insert(0, "doc", ...) (lines 77-83)
tfidf_df(docs) ==
  LET vocab == Vocabulary(docs)
  IN [cols |-> <<DOC>> \o [j \in 1..Len(vocab) |-> <<vocab[j]>>],
      rows |-> [i \in 1..Len(docs) |->
                  <<docs[i].doc>> \o [j \in 1..Len(vocab) |-> Weight(docs[i].text, vocab[j])]]]

\* vectorize_text_run without the test of lines 61-62
vectorize_text_run_unguarded(listing, old) ==
  LET docs == read_docs(listing)
  IN IF docs # <<>> /\ Vocabulary(docs) = <<>> THEN [status |-> "ValueError", file |-> old]
     ELSE [status |-> "returned", file |-> to_csv(tfidf_df(docs), DefaultSep)]

\* vectorize_text on a directory listing: its outcome and the feature file
vectorize_text_run(listing, old) ==
  LET docs == read_docs(listing)
  IN IF docs = <<>> THEN [status |-> "ValueError", file |-> old]
     ELSE IF Vocabulary(docs) = <<>> THEN [status |-> "ValueError", file |-> old]
     ELSE [status |-> "returned", file |-> to_csv(tfidf_df(docs), DefaultSep)]


\* ------------------------------------------------- persisted model artifacts
\* feature-name lists recorded by trained models (feature_names_in_)
FeaturesA == << <<"energy">>, <<"solar">> >>
FeaturesB == << <<"energy">>, <<"hydro">>, <<"wind">> >>

\* what the models directory may hold: per axis the recorded feature names
\* and the classes of the estimator or label encoder
ModelSets ==
  { [tech     |-> [features |-> FeaturesA, hardClasses |-> 2, softClasses |-> 2],
     country  |-> [features |-> FeaturesA,
                   classes  |-> << <<"benelux">>, <<"france">>, <<"germany">>, <<"other">> >>],
     domain   |-> [nonzero_cols |-> FeaturesA,
                   classes  |-> << <<"energy transition">>, <<"new materials">> >>],
     resultat |-> [features |-> FeaturesA,
                   classes  |-> << <<"Interessant">>, <<"Out">> >>]],
    [tech     |-> [features |-> FeaturesB, hardClasses |-> 1, softClasses |-> 2],
     country  |-> [features |-> FeaturesB,
                   classes  |-> << <<"france">>, <<"germany">> >>],
     domain   |-> [nonzero_cols |-> FeaturesB,
                   classes  |-> << <<"energy transition">>, <<"new materials">> >>],
     resultat |-> [features |-> FeaturesA,
                   classes  |-> << <<"Interessant">>, <<"Out">> >>]],
    [tech     |-> [features |-> FeaturesA, hardClasses |-> 2, softClasses |-> 1],
     country  |-> [features |-> FeaturesB,
                   classes  |-> << <<"france">>, <<"germany">> >>],
     domain   |-> [nonzero_cols |-> FeaturesB,
                   classes  |-> << <<"energy transition">>, <<"new materials">> >>],
     resultat |-> [features |-> FeaturesA,
                   classes  |-> << <<"Interessant">>, <<"Out">> >>]] }

\* feature tables already present in data/processed (semicolon-separated,
\* pulled with the repository) before any vectorizer run of this session
StoredTables ==
  { [cols |-> <<DOC, <<"energy">>, <<"solar">>>>,
     rows |-> << << <<"x", ".", "pdf">>, One, Zero >>,
                 << <<"y", ".", "pdf">>, Zero, One >> >>],
    [cols |-> <<DOC, <<"hydro">>, <<"solar">>>>,
     rows |-> << << <<"z", ".", "pdf">>, One, One >> >>] }

\* rows that predict_proba of an estimator with k classes may return
ProbaRows(k) ==
  CASE k = 1 -> { <<100>> }
    [] k = 2 -> { <<51, 49>>, <<50, 50>>, <<0, 100>> }
    [] k = 4 -> { <<25, 25, 25, 25>>, <<29, 29, 21, 21>>, <<21, 21, 29, 29>>,
                  <<20, 30, 30, 20>>, <<0, 0, 0, 100>> }

ProbaMatrices(n, k) == [1..n -> ProbaRows(k)]

\* numpy max and argmax (first index of the maximum) of one row
MaxOf(v) == CHOOSE x \in Range(v) : \A y \in Range(v) : y <= x
ArgMax(v) == CHOOSE i \in 1..Len(v) : v[i] = MaxOf(v) /\ \A j \in 1..(i - 1) : v[j] # MaxOf(v)

\* number of data rows read from the feature file (0 when it cannot be read)
NRows(file) == IF file.exists THEN Len(file.lines) - 1 ELSE 0

\* number of rows whose predict_proba output outlives the function: none when
\* the lookup of the "doc" column raises KeyError
ScoredRows(file) ==
  IF file.exists /\ DOC \in Range(read_csv(file, ReaderSep).cols) THEN NRows(file) ELSE 0

\* df[names]: the named columns, in the order of names
SelectCols(df, names) ==
  [cols |-> names,
   rows |-> [i \in 1..Len(df.rows) |->
               [j \in 1..Len(names) |-> df.rows[i][ColIndex(df.cols, names[j])]]]]

\* df.drop(columns=[c], errors="ignore")
DropCol(df, c) ==
  LET keep == SelectSeq([j \in 1..Len(df.cols) |-> j], LAMBDA j : df.cols[j] # c)
  IN [cols |-> [j \in 1..Len(keep) |-> df.cols[keep[j]]],
      rows |-> [i \in 1..Len(df.rows) |-> [j \in 1..Len(keep) |-> df.rows[i][keep[j]]]]]

\* df with one all-zero column appended for every name of names it lacks
AddZeroCols(df, names) ==
  LET missing == SelectSeq(names, LAMBDA f : f \notin Range(df.cols))
  IN [cols |-> df.cols \o missing,
      rows |-> [i \in 1..Len(df.rows) |-> df.rows[i] \o [j \in 1..Len(missing) |-> Zero]]]

\* commit_file_to_github(local_path, repo_path, commit_message)
commit_file_to_github_params == {"local_path", "repo_path", "commit_message"}
\* the keyword arguments predict_country and predict_resultat pass to it
commit_call_keywords == {"local_file_path", "repo_path", "commit_message"}
\* binding the keywords of a call: an unknown keyword raises TypeError
commit_call(keywords) ==
  IF keywords \subseteq commit_file_to_github_params THEN "returned" ELSE "TypeError"

NoResult == [status |-> "", results |-> EmptyDF, X |-> EmptyDF, probs |-> <<>>]

\* the same for predict_tech, which looks "doc" up after adding the features
ScoredRowsTech(file, features) ==
  IF file.exists /\ DOC \in Range(AddZeroCols(read_csv(file, ReaderSep), features).cols)
    THEN NRows(file) ELSE 0

\* ------------------------------------------------------------ predict_tech
threshold_tech == 50

\* lines 98-106: the positive-class column, or zeros for a one-class estimator
positive_probs_only_column(proba_all) ==
  [i \in 1..Len(proba_all) |-> proba_all[i][Len(proba_all[i])]]
positive_probs(proba_all) ==
  [i \in 1..Len(proba_all) |-> IF Len(proba_all[i]) = 1 THEN 0 ELSE proba_all[i][2]]

\* where_pred with a strict comparison
where_pred_strict(p, name) == IF p > threshold_tech THEN name ELSE "unknown"

\* lines 112-113: np.where(probs >= threshold, name, "unknown")
where_pred(p, name) == IF p >= threshold_tech THEN name ELSE "unknown"

\* lines 117-125: the fusion of the two per-label predictions
combined_label(h, s) ==
  IF h = "hard" /\ s = "soft" THEN <<"both">>
  ELSE IF h = "hard" THEN <<"hard">>
  ELSE IF s = "soft" THEN <<"soft">>
  ELSE <<"unknown">>

\* global_confidence reporting the hard probability only
global_confidence_hard(h, s) == h

\* line 109: np.maximum(hard_probs, soft_probs)
global_confidence(h, s) == IF h >= s THEN h ELSE s

\* the columns of df_results (lines 128-132)
tech_columns == <<DOC, <<"predicted_tech">>, <<"confidence_score">>>>

\* predict_tech on the feature file with the given predict_proba outputs.
\* It builds df_results and returns: no statement writes output_file.
predict_tech_run(file, model, hard_proba_all, soft_proba_all) ==
  IF ~file.exists THEN [NoResult EXCEPT !.status = "FileNotFoundError"]
  ELSE
    LET df_vectors_full == AddZeroCols(read_csv(file, ReaderSep), model.features)
        X == SelectCols(df_vectors_full, model.features)
        hard_probs == positive_probs(hard_proba_all)
        soft_probs == positive_probs(soft_proba_all)
        probs == [i \in 1..Len(X.rows) |-> <<hard_probs[i], soft_probs[i]>>]
    IN IF DOC \notin Range(df_vectors_full.cols)
         THEN [NoResult EXCEPT !.status = "KeyError"]
         ELSE [status  |-> "returned",
               X       |-> X,
               probs   |-> probs,
               results |->
                 [cols |-> tech_columns,
                  rows |-> [i \in 1..Len(X.rows) |->
                     [doc |-> df_vectors_full.rows[i][ColIndex(df_vectors_full.cols, DOC)],
                      predicted |-> combined_label(where_pred(hard_probs[i], "hard"),
                                                   where_pred(soft_probs[i], "soft")),
                      confidence |-> global_confidence(hard_probs[i], soft_probs[i]),
                      proba |-> <<>>]]]]

\* --------------------------------------------------------- predict_country
threshold_country == 30

\* lines 73-84: drop "doc", inject missing trained features as zeros, select
align_country(df, feature_names) ==
  SelectCols(AddZeroCols(DropCol(df, DOC), feature_names), feature_names)

\* country_prediction with a strict comparison
country_prediction_strict(prob, cls_idx, classes) ==
  IF prob > threshold_country THEN classes[cls_idx] ELSE <<"unknown">>

\* lines 94-97: the decoded arg-max class, or "unknown" below the threshold
country_prediction(prob, cls_idx, classes) ==
  IF prob >= threshold_country THEN classes[cls_idx] ELSE <<"unknown">>

\* the name given to the confidence column (line 107)
country_confidence_column == <<"confidence">>

\* the columns of df_results (lines 100-111)
country_columns(classes) ==
  <<DOC, <<"predicted_country">>, country_confidence_column>>
    \o [k \in 1..Len(classes) |-> <<"proba_">> \o classes[k]]

\* predict_country: builds df_results, then calls commit_file_to_github with
\* its keyword arguments; no statement writes output_file.
predict_country_run(file, model, proba_all) ==
  IF ~file.exists THEN [NoResult EXCEPT !.status = "FileNotFoundError"]
  ELSE
    LET df_vectors_full == read_csv(file, ReaderSep)
        X == align_country(df_vectors_full, model.features)
        n == Len(X.rows)
    IN [status  |-> commit_call(commit_call_keywords),
        X       |-> X,
        probs   |-> proba_all,
        results |->
          [cols |-> country_columns(model.classes),
           rows |-> [i \in 1..n |->
              [doc |-> IF DOC \in Range(df_vectors_full.cols)
                         THEN df_vectors_full.rows[i][ColIndex(df_vectors_full.cols, DOC)]
                         ELSE <<ToString(i - 1)>>,
               predicted |-> country_prediction(MaxOf(proba_all[i]), ArgMax(proba_all[i]),
                                                model.classes),
               confidence |-> MaxOf(proba_all[i]),
               proba |-> proba_all[i]]]]]

\* -------------------------------------------------------- predict_resultat
\* X.dropna(subset=["doc"]): the rows whose doc cell is not empty (line 47)
dropna_doc(df) ==
  [cols |-> df.cols,
   rows |-> SelectSeq(df.rows, LAMBDA r : r[ColIndex(df.cols, DOC)] # <<>>)]

\* X_vectors.reindex(columns=train_columns, fill_value=0) (lines 56-57)
reindex(df, train_columns) ==
  [cols |-> train_columns,
   rows |-> [i \in 1..Len(df.rows) |->
               [j \in 1..Len(train_columns) |->
                  IF train_columns[j] \in Range(df.cols)
                    THEN df.rows[i][ColIndex(df.cols, train_columns[j])]
                    ELSE Zero]]]

\* lines 47-57: the input of the random forest, or the error raised on the way
align_resultat(df, train_columns) ==
  IF DOC \notin Range(df.cols) THEN [err |-> "KeyError", X |-> EmptyDF]
  ELSE [err |-> "", X |-> reindex(DropCol(dropna_doc(df), DOC), train_columns)]

\* the columns of results (lines 64-68)
resultat_columns == <<DOC, <<"predicted_resultat">>, <<"confidence_score">>>>

\* predict_resultat: builds results, then calls commit_file_to_github with
\* its keyword arguments; no statement writes OUTPUT_CSV.
predict_resultat_run(file, model, proba_all) ==
  IF ~file.exists THEN [NoResult EXCEPT !.status = "FileNotFoundError"]
  ELSE
    LET df == read_csv(file, ReaderSep)
        aligned == align_resultat(df, model.features)
    IN IF aligned.err # "" THEN [NoResult EXCEPT !.status = aligned.err]
       ELSE
         LET doc_names == SelectCols(dropna_doc(df), <<DOC>>).rows
         IN [status  |-> commit_call(commit_call_keywords),
             X       |-> aligned.X,
             probs   |-> proba_all,
             results |->
               [cols |-> resultat_columns,
                rows |-> [i \in 1..Len(aligned.X.rows) |->
                   [doc |-> doc_names[i][1],
                    predicted |-> model.classes[ArgMax(proba_all[i])],
                    confidence |-> MaxOf(proba_all[i]),
                    proba |-> <<>>]]]]

\* ---------------------------------------------------------- predict_domain
\* the cells pandas.to_numeric accepts
NumericCells == {Zero, One}
\* apply(pd.to_numeric, errors="coerce").fillna(0) on one cell (line 76)
to_numeric(cell) == IF cell \in NumericCells THEN cell ELSE Zero

\* lines 70-76: add missing retained columns as zeros, select, coerce
align_domain_present(df, nonzero_cols) ==
  LET present == SelectSeq(nonzero_cols, LAMBDA c : c \in Range(df.cols))
      sel == SelectCols(df, present)
  IN [cols |-> sel.cols,
      rows |-> [i \in 1..Len(sel.rows) |->
                  [j \in 1..Len(sel.cols) |-> to_numeric(sel.rows[i][j])]]]
align_domain(df, nonzero_cols) ==
  LET sel == SelectCols(AddZeroCols(df, nonzero_cols), nonzero_cols)
  IN [cols |-> sel.cols,
      rows |-> [i \in 1..Len(sel.rows) |->
                  [j \in 1..Len(sel.cols) |-> to_numeric(sel.rows[i][j])]]]

\* the columns of out (lines 105-109)
domain_columns == <<DOC, <<"predicted_domain">>, <<"confidence_score">>>>

\* a result table as the DataFrame of text cells that to_csv writes
as_cells(results) ==
  [cols |-> results.cols,
   rows |-> [i \in 1..Len(results.rows) |->
               <<results.rows[i].doc, results.rows[i].predicted,
                 <<ToString(results.rows[i].confidence)>>>>]]

\* le.inverse_transform(np.argmax(proba, axis=1)) for one row (lines 93-102)
domain_prediction_gated(proba_row, classes) ==
  IF MaxOf(proba_row) <= 50 THEN <<"unknown">> ELSE classes[ArgMax(proba_row)]
domain_prediction(proba_row, classes) == classes[ArgMax(proba_row)]

\* predict_domain: builds out and writes it to OUT_FILE with sep=";"
predict_domain_run(file, model, proba) ==
  IF ~file.exists THEN [NoResult EXCEPT !.status = "FileNotFoundError"]
  ELSE
    LET df_vec == read_csv(file, ReaderSep)
    IN IF DOC \notin Range(df_vec.cols) THEN [NoResult EXCEPT !.status = "KeyError"]
       ELSE
         LET X == align_domain(df_vec, model.nonzero_cols)
         IN [status  |-> "returned",
             X       |-> X,
             probs   |-> proba,
             results |->
               [cols |-> domain_columns,
                rows |-> [i \in 1..Len(X.rows) |->
                   [doc |-> df_vec.rows[i][ColIndex(df_vec.cols, DOC)],
                    predicted |-> domain_prediction(proba[i], model.classes),
                    confidence |-> MaxOf(proba[i]),
                    proba |-> <<>>]]]]

\* ------------------------------------------------------------------- state
Axes == {"tech", "domain", "country", "resultat"}

\* the label tables the code names: path_labels of the four train functions
\* and LABELED_CSV of ui/train.py, LABELED_CSV of model_train.py (three
\* directories above src/ml), path_label of evaluate
TrainLabels == "data/labeled.csv"
CorrectionLabels == "../labeled.csv"
EvalLabels == "labeled_total.csv"
LabelPaths == {TrainLabels, CorrectionLabels, EvalLabels}

\* the files train_domain dumps and predict_domain loads, in dump order
DomainArtifacts ==
  <<"domain_selector", "domain_svd", "domain_scaler", "domain_centroids",
    "domain_clf", "domain_label_encoder", "domain_nonzero_columns">>

NoOut == [op |-> "none", status |-> ""]

\* "remaining_decks" not in st.session_state
NoSession == [started |-> FALSE, remaining_decks |-> <<>>]

VARIABLES
  inputDir,   \* the files of data/processed/translated
  vectFile,   \* data/processed/tfidf_vectors.csv
  models,     \* the artifacts of the models directory
  predFiles,  \* output/predictions/tfidf_vectors_with_<axis>_predictions.csv
  last,       \* the last function run: its name, how it ended, what it built
  labelFiles, \* the label tables, by path: data/labeled.csv and its namesakes
  out,        \* how the last evaluation, training or labelling operation ended
  domainRun,  \* for each of the seven domain artifacts, the training run that wrote it
  session     \* st.session_state.remaining_decks of the labelling page

vars == <<inputDir, vectFile, models, predFiles, last, labelFiles, out, domainRun, session>>

\* What the prediction functions never touch.
trainVars == <<labelFiles, out, domainRun, session>>

Init ==
  /\ inputDir \in Directories
  /\ vectFile \in {NoFile} \cup {to_csv(t, ReaderSep) : t \in StoredTables}
  /\ vectFile.exists => inputDir \in SyncedDirs
  /\ models \in ModelSets
  /\ predFiles = [a \in Axes |-> NoFile]
  /\ last = [op |-> "none", status |-> "", results |-> EmptyDF, X |-> EmptyDF,
             probs |-> <<>>]
  /\ labelFiles = [p \in LabelPaths |-> NoFile]
  /\ out = NoOut
  /\ domainRun = [a \in Range(DomainArtifacts) |-> 0]
  /\ session = NoSession

Ended(op, run) ==
  [op |-> op, status |-> run.status, results |-> run.results, X |-> run.X,
   probs |-> run.probs]

vectorize_text ==
  \E listing \in Listings(inputDir) :
    LET run == vectorize_text_run(listing, vectFile)
    IN /\ vectFile' = run.file
       /\ last' = Ended("vectorize_text", [NoResult EXCEPT !.status = run.status])
       /\ UNCHANGED <<inputDir, models, predFiles, trainVars>>

predict_tech ==
  \E hard_proba_all \in ProbaMatrices(ScoredRowsTech(vectFile, models.tech.features),
                                       models.tech.hardClasses),
     soft_proba_all \in ProbaMatrices(ScoredRowsTech(vectFile, models.tech.features),
                                       models.tech.softClasses) :
    /\ last' = Ended("predict_tech",
                     predict_tech_run(vectFile, models.tech, hard_proba_all, soft_proba_all))
    /\ UNCHANGED <<inputDir, vectFile, models, predFiles, trainVars>>

predict_country ==
  \E proba_all \in ProbaMatrices(NRows(vectFile), Len(models.country.classes)) :
    /\ last' = Ended("predict_country",
                     predict_country_run(vectFile, models.country, proba_all))
    /\ UNCHANGED <<inputDir, vectFile, models, predFiles, trainVars>>

predict_resultat ==
  \E proba_all \in ProbaMatrices(ScoredRows(vectFile), Len(models.resultat.classes)) :
    /\ last' = Ended("predict_resultat",
                     predict_resultat_run(vectFile, models.resultat, proba_all))
    /\ UNCHANGED <<inputDir, vectFile, models, predFiles, trainVars>>

predict_domain ==
  \E proba \in ProbaMatrices(ScoredRows(vectFile), Len(models.domain.classes)) :
    LET run == predict_domain_run(vectFile, models.domain, proba)
    IN /\ last' = Ended("predict_domain", run)
       /\ predFiles' = IF run.status = "returned"
                         THEN [predFiles EXCEPT !["domain"] = to_csv(as_cells(run.results), ";")]
                         ELSE predFiles
       /\ UNCHANGED <<inputDir, vectFile, models, trainVars>>

Next ==
  \/ vectorize_text
  \/ predict_tech
  \/ predict_domain
  \/ predict_country
  \/ predict_resultat

Spec == Init /\ [][Next]_vars

\* ---------------------------------------------------------------- evaluate
MaxEvalDocs == 2

\* the documents of the evaluation tables
EvalDocs == <<<<"d1">>, <<"d2">>, <<"d3">>>>

\* the values of labels and predictions, in alphabetical order (sorted())
LabelOrder == <<"Interessant", "Out", "france", "germany", "hard", "soft", "unknown">>

RECURSIVE Concat(_)
Concat(ss) == IF ss = <<>> THEN <<>> ELSE Head(ss) \o Concat(Tail(ss))

\* the sequences drawn from choices[i] at each place i of 1..n, a place
\* being left out when its choice is the empty row
RECURSIVE TablesOver(_, _)
TablesOver(n, choices) ==
  IF n = 0 THEN {<<>>}
  ELSE {t \o (IF c = <<>> THEN <<>> ELSE <<c>>) :
          t \in TablesOver(n - 1, choices), c \in choices[n] \cup {<<>>}}

\* predict_col = f"predicted_{label_col}" (line 64)
predict_col(label_col) == <<"predicted_" \o label_col>>

\* the prediction files an axis may have: a predicted class, "unknown", or
\* an empty cell for each document
StoredPredictions(label_col, classes) ==
  {to_csv([cols |-> <<DOC, predict_col(label_col), <<"confidence_score">>>>, rows |-> t],
          ReaderSep) :
     t \in TablesOver(MaxEvalDocs,
             [i \in 1..MaxEvalDocs |-> {<<EvalDocs[i], p, <<"40">>>> :
                           p \in {<<c>> : c \in classes} \cup {<<"unknown">>, <<>>}}])}

\* the label tables evaluate may find: tech, country and result filled in or left
\* empty for each document, with the columns of the label store
StoredLabels ==
  {to_csv([cols |-> <<DOC, <<"tech">>, <<"domain">>, <<"country">>, <<"result">>>>,
           rows |-> t], ReaderSep) :
     t \in TablesOver(MaxEvalDocs,
             [i \in 1..MaxEvalDocs |->
                       {<<EvalDocs[i], <<"hard">>, <<>>, <<"france">>, <<"Out">>>>,
                         <<EvalDocs[i], <<"soft">>, <<>>, <<"germany">>, <<"Interessant">>>>,
                         <<EvalDocs[i], <<>>, <<>>, <<>>, <<>>>>}])}

\* pd.merge(df_pred[["doc", predict_col]], df_label[["doc", label_col]],
\* on="doc", how="inner") (lines 80-85): rows <<doc, predicted, actual>>
merge_eval(df_pred, pcol, df_label, lcol) ==
  LET d1 == ColIndex(df_pred.cols, DOC)
      d2 == ColIndex(df_label.cols, DOC)
      p  == ColIndex(df_pred.cols, pcol)
      a  == ColIndex(df_label.cols, lcol)
  IN Concat([i \in 1..Len(df_pred.rows) |->
       LET l == df_pred.rows[i]
           matches == SelectSeq(df_label.rows, LAMBDA r : r[d2] = l[d1])
       IN [j \in 1..Len(matches) |-> <<l[d1], l[p], matches[j][a]>>]])

\* lines 91-92: dropna on both columns, then the rows with two non-empty strings
drop_empty(df_eval) == SelectSeq(df_eval, LAMBDA r : r[2] # <<>> /\ r[3] # <<>>)

\* (df_eval["correct"]).sum() (lines 95, 99)
RECURSIVE count_correct(_)
count_correct_all(df_eval) == Len(df_eval)
count_correct(df_eval) ==
  IF df_eval = <<>> THEN 0
  ELSE (IF Head(df_eval)[2] = Head(df_eval)[3] THEN 1 ELSE 0) + count_correct(Tail(df_eval))

\* df_eval[~df_eval["correct"]] (line 115)
wrong_rows(df_eval) == SelectSeq(df_eval, LAMBDA r : r[2] # r[3])

\* sorted(df_eval[label_col].unique()) (line 123)
labels_sorted(df_eval) ==
  SelectSeq(LabelOrder, LAMBDA c : \E i \in 1..Len(df_eval) : df_eval[i][3] = <<c>>)

\* sklearn.metrics.confusion_matrix(y_true, y_pred, labels=labels): cell
\* [i][j] counts the samples of true class i and predicted class j; a sample
\* whose prediction is not among labels is left out (lines 124-128)
confusion_matrix(df_eval, labels) ==
  [i \in 1..Len(labels) |->
     [j \in 1..Len(labels) |->
        Cardinality({r \in 1..Len(df_eval) :
                       df_eval[r][3] = <<labels[i]>> /\ df_eval[r][2] = <<labels[j]>>})]]

NoReport == [reported |-> FALSE, total |-> 0, correct |-> 0, accuracy |-> 0,
             df_eval |-> <<>>, df_wrong |-> <<>>, labels |-> <<>>, cm |-> <<>>]

\* evaluate(label_col) (lines 61-133). "NoOverlap" is the ValueError of line
\* 88; with no row left after line 92, correct / total is numpy's 0 / 0 = nan,
\* line 105 prints it, and confusion_matrix raises ValueError on labels = [].
evaluate_run(label_col, pred, label) ==
  IF ~pred.exists \/ ~label.exists THEN [status |-> "FileNotFoundError"] @@ NoReport
  ELSE
    LET df_pred  == read_csv(pred, ReaderSep)
        df_label == read_csv(label, ReaderSep)
    IN IF \/ DOC \notin Range(df_pred.cols) \/ DOC \notin Range(df_label.cols)
          \/ predict_col(label_col) \notin Range(df_pred.cols)
          \/ <<label_col>> \notin Range(df_label.cols)
         THEN [status |-> "KeyError"] @@ NoReport
       ELSE
         LET merged == merge_eval(df_pred, predict_col(label_col), df_label, <<label_col>>)
         IN IF Len(merged) = 0 THEN [status |-> "NoOverlap"] @@ NoReport
            ELSE
              LET df_eval == drop_empty(merged)
                  total   == Len(df_eval)
                  correct == count_correct(df_eval)
              IN IF total = 0
                   THEN [status |-> "ValueError"] @@ [NoReport EXCEPT !.reported = TRUE]
                   ELSE [status   |-> "returned",
                         reported |-> TRUE,
                         total    |-> total,
                         correct  |-> correct,
                         accuracy |-> (correct * 100) \div total,
                         df_eval  |-> df_eval,
                         df_wrong |-> wrong_rows(df_eval),
                         labels   |-> labels_sorted(df_eval),
                         cm       |-> confusion_matrix(df_eval, labels_sorted(df_eval))]

\* the arguments evaluate is called with: main_file.py lines 76-79, and
\* evaluate.py's own entry point (line 137)
EvalArgs == Axes \cup {"result"}

PredFileOf(label_col) ==
  IF label_col \in Axes THEN predFiles[label_col] ELSE NoFile

evaluate(label_col) ==
  /\ out' = [op |-> "evaluate", label_col |-> label_col]
              @@ evaluate_run(label_col, PredFileOf(label_col), labelFiles[EvalLabels])
  /\ UNCHANGED <<inputDir, vectFile, models, predFiles, last, labelFiles, domainRun, session>>

\* No prediction and no training has run.
Idle ==
  /\ inputDir = {}
  /\ models = CHOOSE m \in ModelSets : m.country.classes[1] = <<"benelux">>
  /\ last = [op |-> "none", status |-> "", results |-> EmptyDF, X |-> EmptyDF,
             probs |-> <<>>]
  /\ out = NoOut
  /\ domainRun = [a \in Range(DomainArtifacts) |-> 0]
  /\ session = NoSession

InitEval ==
  /\ Idle
  /\ vectFile = NoFile
  /\ \E a \in {"tech", "country", "resultat"} :
       predFiles \in
         {[[x \in Axes |-> NoFile] EXCEPT ![a] = f] :
            f \in StoredPredictions(a, CASE a = "tech" -> {"hard", "soft"}
                                          [] a = "country" -> {"france", "germany"}
                                          [] a = "resultat" -> {"Interessant", "Out"})}
  /\ labelFiles \in {[[p \in LabelPaths |-> NoFile] EXCEPT ![EvalLabels] = f] :
                       f \in StoredLabels}

NextEval == \E label_col \in EvalArgs : evaluate(label_col)

SpecEval == InitEval /\ [][NextEval]_vars

\* ------------------------------------------------------------ train_country
MaxTrainDocs == 4

\* the documents of the training tables
TrainDocs == <<<<"d1">>, <<"d2">>, <<"d3">>, <<"d4">>, <<"d5">>, <<"d6">>>>

\* feature tables tfidf_vectors.csv may hold at training time: one whose
\* vocabulary has the term "country", one with the terms "domain" and "tech",
\* one with none of them; in all three only the first two documents contain a term of the
\* vocabulary
TrainTables ==
  { [cols |-> <<DOC, <<"country">>, <<"energy">>>>,
     rows |-> [i \in 1..MaxTrainDocs |->
                 <<TrainDocs[i], IF i = 2 THEN One ELSE Zero, IF i = 1 THEN One ELSE Zero>>]],
    [cols |-> <<DOC, <<"domain">>, <<"energy">>, <<"tech">>>>,
     rows |-> [i \in 1..MaxTrainDocs |->
                 <<TrainDocs[i], IF i = 1 THEN One ELSE Zero, IF i \in {1, 2} THEN One ELSE Zero,
                   IF i = 2 THEN One ELSE Zero>>]],
    [cols |-> <<DOC, <<"energy">>, <<"solar">>>>,
     rows |-> [i \in 1..MaxTrainDocs |->
                 <<TrainDocs[i], IF i = 1 THEN One ELSE Zero, IF i = 2 THEN One ELSE Zero>>]] }

\* the feature files: written with ";" (a file of the checkout), or with
\* vectorize_text's delimiter
TrainFeatureFiles ==
  {to_csv(t, ReaderSep) : t \in TrainTables}
    \cup {to_csv(t, DefaultSep) : t \in {u \in TrainTables : <<"country">> \notin Range(u.cols)}}

\* the tables of data/labeled.csv: for each document a country or none and
\* a domain, with the other labels filled in
TrainLabelFiles ==
  {to_csv([cols |-> <<DOC, <<"tech">>, <<"domain">>, <<"country">>, <<"result">>>>,
           rows |-> t], ReaderSep) :
     t \in TablesOver(MaxTrainDocs,
             [i \in 1..MaxTrainDocs |->
                {<<TrainDocs[i], <<"hard">>, <<"Energy Transition">>, <<"france">>, <<"Out">>>>,
                 <<TrainDocs[i], <<"hard">>, <<"new materials">>, <<"germany">>, <<"Out">>>>,
                 <<TrainDocs[i], <<"hard">>, <<>>, <<>>, <<"Out">>>>}])}

\* pd.merge(left, right, on="doc", how="inner"): the columns the two tables
\* share besides the key get the suffixes _x and _y
merge_cols(left, right) ==
  LET shared(c) == c # DOC /\ c \in Range(left.cols) /\ c \in Range(right.cols)
      others == SelectSeq(right.cols, LAMBDA c : c # DOC)
  IN [j \in 1..Len(left.cols) |->
        IF shared(left.cols[j]) THEN left.cols[j] \o <<"_x">> ELSE left.cols[j]]
     \o [j \in 1..Len(others) |->
        IF shared(others[j]) THEN others[j] \o <<"_y">> ELSE others[j]]

merge(left, right) ==
  LET d1 == ColIndex(left.cols, DOC)
      d2 == ColIndex(right.cols, DOC)
      rest == DropCol(right, DOC)
  IN [cols |-> merge_cols(left, right),
      rows |-> Concat([i \in 1..Len(left.rows) |->
                 LET js == SelectSeq([j \in 1..Len(right.rows) |-> j],
                                     LAMBDA j : right.rows[j][d2] = left.rows[i][d1])
                 IN [k \in 1..Len(js) |-> left.rows[i] \o rest.rows[js[k]]]])]

\* df.dropna(subset=[c]) of a table that has the column c
dropna(df, c) ==
  [cols |-> df.cols, rows |-> SelectSeq(df.rows, LAMBDA r : r[ColIndex(df.cols, c)] # <<>>)]

country_y == <<"country", "_y">>

\* X_df.apply(pd.to_numeric, errors="coerce").fillna(0) (line 74)
numeric_frame(df) ==
  [cols |-> df.cols,
   rows |-> [i \in 1..Len(df.rows) |-> [j \in 1..Len(df.cols) |-> to_numeric(df.rows[i][j])]]]

\* (X_num.abs().sum(axis=0) != 0).sum() == 0 (line 77)
all_zero(X_num) == \A i \in 1..Len(X_num.rows) : \A j \in 1..Len(X_num.cols) : X_num.rows[i][j] = Zero

\* LabelEncoder().fit(y_raw).classes_: the distinct labels, sorted
encoder_classes(y_raw) ==
  LET present == SelectSeq(LabelOrder, LAMBDA c : <<c>> \in Range(y_raw))
  IN [i \in 1..Len(present) |-> <<present[i]>>]

\* int(series_counts.min()) if not series_counts.empty else 0 (lines 99-100)
smallest_class(y_raw) ==
  LET count(c) == Cardinality({i \in 1..Len(y_raw) : y_raw[i] = c})
  IN IF y_raw = <<>> THEN 0
     ELSE CHOOSE n \in 1..Len(y_raw) :
            /\ \E c \in Range(y_raw) : count(c) = n
            /\ \A c \in Range(y_raw) : count(c) >= n

\* line 101
n_splits_three(n_min) == IF n_min >= 2 THEN 3 ELSE 0
n_splits_of(n_min) == IF n_min >= 2 THEN (IF n_min < 3 THEN n_min ELSE 3) ELSE 0

\* what cross_val_predict may do (line 107): return, or raise
CVOutcomes == {"", "ValueError"}

\* lines 106-112: try ... except Exception prints the error and goes on
cv_reraise(error) == error
cv_except(error) == ""

NotTrained == [cv |-> "none", n_min |-> 0, n_splits |-> 0, validated |-> FALSE,
               fitted |-> FALSE, X |-> EmptyDF, y_raw |-> <<>>]

\* train_country (lines 49-126): how it ends, and the model and encoder it
\* dumps. "NoFeatures" and "ZeroVariance" are the ValueErrors of lines 71, 78.
train_country_run(vectors, labels, cv_error) ==
  IF ~vectors.exists \/ ~labels.exists THEN [status |-> "FileNotFoundError"] @@ NotTrained
  ELSE
    LET df_vectors == read_csv(vectors, ReaderSep)
        df_labels  == read_csv(labels, ReaderSep)
    IN IF DOC \notin Range(df_vectors.cols) \/ DOC \notin Range(df_labels.cols)
         THEN [status |-> "KeyError"] @@ NotTrained
       ELSE IF country_y \notin Range(merge_cols(df_vectors, df_labels))
         THEN [status |-> "KeyError"] @@ NotTrained
       ELSE
         LET df    == DropCol(DropCol(dropna(merge(df_vectors, df_labels), country_y),
                                      <<"label">>), <<"domain">>)
             X_df  == DropCol(DropCol(df, DOC), country_y)
             X_num == numeric_frame(X_df)
             y_raw == [i \in 1..Len(df.rows) |-> df.rows[i][ColIndex(df.cols, country_y)]]
             n_min == smallest_class(y_raw)
             n_splits == n_splits_of(n_min)
             cv    == IF n_splits >= 2
                        THEN (IF cv_error = "" THEN "ran" ELSE "raised")
                        ELSE "skipped"
             after_cv == IF n_splits >= 2 THEN cv_except(cv_error) ELSE ""
         IN IF Len(X_df.cols) = 0 THEN [status |-> "NoFeatures"] @@ NotTrained
            ELSE IF all_zero(X_num) THEN [status |-> "ZeroVariance"] @@ NotTrained
            ELSE IF Len(X_num.rows) # Len(y_raw) THEN [status |-> "ValueError"] @@ NotTrained
            ELSE IF after_cv # ""
              THEN [status |-> after_cv, cv |-> cv, n_min |-> n_min, n_splits |-> n_splits,
                    validated |-> TRUE, fitted |-> FALSE, X |-> X_num, y_raw |-> y_raw]
            ELSE [status |-> "returned", cv |-> cv, n_min |-> n_min, n_splits |-> n_splits,
                  validated |-> TRUE, fitted |-> TRUE, X |-> X_num, y_raw |-> y_raw]

train_country ==
  \E cv_error \in CVOutcomes :
    LET run == train_country_run(vectFile, labelFiles[TrainLabels], cv_error)
    IN /\ out' = [op |-> "train_country"] @@ run
       /\ models' = IF run.status = "returned"
                      THEN [models EXCEPT !.country =
                              [features |-> run.X.cols, classes |-> encoder_classes(run.y_raw)]]
                      ELSE models
       /\ UNCHANGED <<inputDir, vectFile, predFiles, last, labelFiles, domainRun, session>>

InitTrain ==
  /\ Idle
  /\ predFiles = [a \in Axes |-> NoFile]
  /\ vectFile \in TrainFeatureFiles
  /\ labelFiles \in {[[p \in LabelPaths |-> NoFile] EXCEPT ![TrainLabels] = f] :
                       f \in TrainLabelFiles \cup {NoFile}}

\* ------------------------------------------------------------- train_domain
MaxRuns == 2

K_SELECT == 3000
SVD_COMPONENTS == 150

\* str(s).strip().lower() of the labels in use
lower(s) == IF s = "Energy Transition" THEN "energy transition" ELSE s

\* _canon_label (line 73)
canon_label(cell) == IF cell = <<>> THEN <<"unknown">> ELSE [i \in 1..Len(cell) |-> lower(cell[i])]

domain_y == <<"domain", "_y">>

\* col_sums[col_sums > 0].index.tolist() (lines 120-121)
nonzero_columns(X_df) ==
  SelectSeq(X_df.cols, LAMBDA c : \E i \in 1..Len(X_df.rows) : X_df.rows[i][ColIndex(X_df.cols, c)] # Zero)

Min(a, b) == IF a <= b THEN a ELSE b

\* k = min(K_SELECT, X_sp.shape[1] - 1) (line 134)
k_select(n_features) == Min(K_SELECT, n_features - 1)

\* n_comp = min(SVD_COMPONENTS, X_sel.shape[1] - 1) (line 157)
n_components(n_selected) == Min(SVD_COMPONENTS, n_selected - 1)

\* the distinct values of y_raw, in the order of np.unique
domain_classes(y_raw) ==
  LET order == <<<<"energy transition">>, <<"new materials">>, <<"unknown">>>>
  IN SelectSeq(order, LAMBDA c : c \in Range(y_raw))

NoDomainFit == [stage |-> "merge", nonzero_cols |-> <<>>, classes |-> <<>>, k |-> 0, n_comp |-> 0]

\* train_domain up to clf.fit (lines 98-174): how it ends and what it
\* fitted. SelectKBest rejects k < 0, cosine_similarity an array without
\* columns, TruncatedSVD n_components < 1, LogisticRegression a single class.
train_domain_run(vectors, labels) ==
  IF ~vectors.exists \/ ~labels.exists THEN [status |-> "FileNotFoundError"] @@ NoDomainFit
  ELSE
    LET df_vec == read_csv(vectors, ReaderSep)
        df_lab == read_csv(labels, ReaderSep)
    IN IF DOC \notin Range(df_vec.cols) \/ DOC \notin Range(df_lab.cols)
         THEN [status |-> "KeyError"] @@ NoDomainFit
       ELSE
         LET df == merge(df_vec, df_lab)
         IN IF Len(df.rows) = 0 THEN [status |-> "RuntimeError"] @@ NoDomainFit
            ELSE IF domain_y \notin Range(df.cols) THEN [status |-> "KeyError"] @@ NoDomainFit
            ELSE
              LET y_raw == [i \in 1..Len(df.rows) |->
                              canon_label(df.rows[i][ColIndex(df.cols, domain_y)])]
                  X_df  == numeric_frame(DropCol(DropCol(df, DOC), domain_y))
                  nonzero_cols == nonzero_columns(X_df)
                  k      == k_select(Len(nonzero_cols))
                  n_comp == n_components(k)
                  fit(status, stage) ==
                    [status |-> status, stage |-> stage, nonzero_cols |-> nonzero_cols,
                     classes |-> domain_classes(y_raw), k |-> k, n_comp |-> n_comp]
              IN IF k < 0 THEN fit("ValueError", "selection")
                 ELSE IF k = 0 THEN fit("ValueError", "centroids")
                 ELSE IF n_comp < 1 THEN fit("ValueError", "svd")
                 ELSE IF Len(domain_classes(y_raw)) < 2 THEN fit("ValueError", "fit")
                 ELSE fit("returned", "dump")

\* the number of the training run that starts now
NewRun == 1 + MaxOf([i \in 1..Len(DomainArtifacts) |-> domainRun[DomainArtifacts[i]]])

\* lines 187-193: the first n of the seven joblib.dump calls have been made
dumped(n, run) ==
  [a \in Range(DomainArtifacts) |->
     IF ColIndex(DomainArtifacts, a) <= n THEN run ELSE domainRun[a]]

\* the label encoder is the sixth dump, the retained columns the seventh
dumped_domain(n, fit) ==
  [nonzero_cols |-> IF n >= 7 THEN fit.nonzero_cols ELSE models.domain.nonzero_cols,
   classes      |-> IF n >= 6 THEN fit.classes ELSE models.domain.classes]

\* train_domain run to its end
train_domain ==
  LET run == train_domain_run(vectFile, labelFiles[TrainLabels])
      n   == IF run.status = "returned" THEN Len(DomainArtifacts) ELSE 0
  IN /\ NewRun <= MaxRuns
     /\ out' = [op |-> "train_domain", dumps |-> n] @@ run
     /\ domainRun' = dumped(n, NewRun)
     /\ models' = [models EXCEPT !.domain = dumped_domain(n, run)]
     /\ UNCHANGED <<inputDir, vectFile, predFiles, last, labelFiles, session>>

\* -------------------------------------------------------------- train_tech
tech_y == <<"tech", "_y">>

RECURSIVE DropCols(_, _)
DropCols(df, names) ==
  IF names = <<>> THEN df ELSE DropCols(DropCol(df, Head(names)), Tail(names))

NoTechFit == [features |-> <<>>, target |-> <<>>]

\* train_tech up to the second clf.fit (lines 74-139).
\* strip_txt is df_vec["doc"].str.replace(r"\.txt$", "", regex=True) on one
\* cell (line 84); n_test the size of the test set of
\* train_test_split(test_size=0.3), ceil(0.3 n); split_accepts says that
\* train_test_split(..., stratify=stratify_labels) accepts the strata: each
\* has two members at least, and neither part is smaller than their number
train_tech_run(vectors, labels) ==
  IF ~vectors.exists \/ ~labels.exists THEN [status |-> "FileNotFoundError"] @@ NoTechFit
  ELSE
    LET vec    == read_csv(vectors, ReaderSep)
        lab    == read_csv(labels, ReaderSep)
        strip_txt(doc) ==
          IF Len(doc) >= 2 /\ SubSeq(doc, Len(doc) - 1, Len(doc)) = <<".", "txt">>
            THEN SubSeq(doc, 1, Len(doc) - 2) ELSE doc
        drop_cols ==
          <<<<"domain">>, <<"country">>, <<"client_y">>, <<"revenu">>, <<"gotomarket">>,
            <<"startup">>, <<"produit">>>>
        n_test(n) == (3 * n + 9) \div 10
        split_accepts(stratify_labels) ==
          LET n == Len(stratify_labels)
              strata == Range(stratify_labels)
              count(s) == Cardinality({i \in 1..n : stratify_labels[i] = s})
          IN /\ \A s \in strata : count(s) >= 2
             /\ n_test(n) >= Cardinality(strata)
             /\ n - n_test(n) >= Cardinality(strata)
    IN IF DOC \notin Range(vec.cols) \/ DOC \notin Range(lab.cols)
            \/ <<"tech">> \notin Range(lab.cols)
         THEN [status |-> "KeyError"] @@ NoTechFit
       ELSE
         LET df_lab == SelectCols(lab, <<DOC, <<"tech">>>>)
             df_vec == [cols |-> vec.cols,
                        rows |-> [i \in 1..Len(vec.rows) |->
                                    [j \in 1..Len(vec.cols) |->
                                       IF vec.cols[j] = DOC THEN strip_txt(vec.rows[i][j])
                                       ELSE vec.rows[i][j]]]]
             merged == DropCols(merge(df_vec, df_lab), drop_cols)
         IN IF Len(merged.rows) = 0 THEN [status |-> "ValueError"] @@ NoTechFit
            ELSE IF tech_y \notin Range(merged.cols) THEN [status |-> "KeyError"] @@ NoTechFit
            ELSE
              LET df == dropna(merged, tech_y)
                  target == [i \in 1..Len(df.rows) |-> df.rows[i][ColIndex(df.cols, tech_y)]]
                  hard == [i \in 1..Len(target) |->
                             IF target[i] \in {<<"hard">>, <<"both">>} THEN 1 ELSE 0]
                  soft == [i \in 1..Len(target) |->
                             IF target[i] \in {<<"soft">>, <<"both">>} THEN 1 ELSE 0]
                  X == DropCols(df, <<DOC, tech_y, <<"hard">>, <<"soft">>>>)
                  stratify_labels == [i \in 1..Len(target) |-> <<hard[i], soft[i]>>]
              IN IF Len(df.rows) = 0 THEN [status |-> "ValueError"] @@ NoTechFit
                 ELSE IF ~split_accepts(stratify_labels)
                   THEN [status |-> "ValueError", features |-> X.cols, target |-> target]
                 ELSE [status |-> "returned", features |-> X.cols, target |-> target]

\* train_tech run to its end: joblib.dump(clf, model_path) (lines 143-144);
\* each estimator of the one-vs-rest classifier gives two probability columns
train_tech ==
  LET run == train_tech_run(vectFile, labelFiles[TrainLabels])
  IN /\ out' = [op |-> "train_tech"] @@ run
     /\ models' = IF run.status = "returned"
                    THEN [models EXCEPT !.tech =
                            [features |-> run.features, hardClasses |-> 2, softClasses |-> 2]]
                    ELSE models
     /\ UNCHANGED <<inputDir, vectFile, predFiles, last, labelFiles, domainRun, session>>

\* train_domain whose process is killed between two of the dumps
train_domain_killed ==
  \E n \in 0..(Len(DomainArtifacts) - 1) :
    LET run == train_domain_run(vectFile, labelFiles[TrainLabels])
    IN /\ NewRun <= MaxRuns
       /\ run.status = "returned"
       /\ out' = [[op |-> "train_domain", dumps |-> n] @@ run EXCEPT !.status = "killed"]
       /\ domainRun' = dumped(n, NewRun)
       /\ models' = [models EXCEPT !.domain = dumped_domain(n, run)]
       /\ UNCHANGED <<inputDir, vectFile, predFiles, last, labelFiles, session>>

NextTrain ==
  \/ train_country
  \/ train_domain
  \/ train_domain_killed

SpecTrain == InitTrain /\ [][NextTrain]_vars

\* the three trainings that merge the two tables, on a label store in which
\* every document has a row
InitFit ==
  /\ InitTrain
  /\ labelFiles[TrainLabels].exists
  /\ Len(labelFiles[TrainLabels].lines) = MaxTrainDocs + 1

NextFit ==
  \/ train_country
  \/ train_domain
  \/ train_tech

SpecFit == InitFit /\ [][NextFit]_vars

\* ------------------------------------------------------------------ drivers
\* one probability matrix of the right shape, for a call whose results the
\* driver does not keep
SomeProba(n, k) == CHOOSE m \in ProbaMatrices(n, k) : TRUE

Step(name, status) == [step |-> name, status |-> status]

\* the calls made up to and including the first one that raises: no driver
\* catches an exception between two calls
RECURSIVE until_raise(_)
until_raise(steps) ==
  IF steps = <<>> THEN <<>>
  ELSE IF Head(steps).status # "returned" THEN <<Head(steps)>>
  ELSE <<Head(steps)>> \o until_raise(Tail(steps))

\* the predict_* calls on one feature file, in the order given
predict_steps(order, file, domain_run) ==
  [i \in 1..Len(order) |->
     Step(order[i],
       CASE order[i] = "predict_tech" ->
              predict_tech_run(file, models.tech,
                SomeProba(ScoredRowsTech(file, models.tech.features), models.tech.hardClasses),
                SomeProba(ScoredRowsTech(file, models.tech.features), models.tech.softClasses)).status
         [] order[i] = "predict_domain" -> domain_run.status
         [] order[i] = "predict_country" ->
              predict_country_run(file, models.country,
                SomeProba(NRows(file), Len(models.country.classes))).status
         [] order[i] = "predict_resultat" ->
              predict_resultat_run(file, models.resultat,
                SomeProba(ScoredRows(file), Len(models.resultat.classes))).status)]

\* output/predictions after the steps made: predict_domain is the one
\* function that writes its file
written(steps, domain_run) ==
  IF Step("predict_domain", "returned") \in Range(steps)
    THEN [predFiles EXCEPT !["domain"] = to_csv(as_cells(domain_run.results), ";")]
    ELSE predFiles

\* main_file.py lines 67-79, a script without try/except
main_file_order == <<"predict_tech", "predict_domain", "predict_country", "predict_resultat">>
main_file_evaluations == <<"tech", "domain", "country", "resultat">>

main_file ==
  \E listing \in Listings(inputDir) :
    LET v == vectorize_text_run(listing, vectFile)
    IN \E proba \in ProbaMatrices(IF v.status = "returned" THEN ScoredRows(v.file) ELSE 0,
                                  Len(models.domain.classes)) :
         LET d == predict_domain_run(v.file, models.domain, proba)
             predictions == until_raise(predict_steps(main_file_order, v.file, d))
             files == written(predictions, d)
             evaluations ==
               [i \in 1..Len(main_file_evaluations) |->
                  Step("evaluate_" \o main_file_evaluations[i],
                       evaluate_run(main_file_evaluations[i], files[main_file_evaluations[i]],
                                    labelFiles[EvalLabels]).status)]
             steps == until_raise(
                        <<Step("vectorize_text", v.status)>>
                        \o (IF v.status = "returned" THEN predictions ELSE <<>>)
                        \o (IF v.status = "returned" /\ Len(predictions) = Len(main_file_order)
                               /\ predictions[Len(predictions)].status = "returned"
                              THEN evaluations ELSE <<>>))
         IN /\ vectFile' = v.file
            /\ predFiles' = IF v.status = "returned" THEN files ELSE predFiles
            /\ out' = [op |-> "main_file", steps |-> steps,
                       planned |-> main_file_order]
            /\ UNCHANGED <<inputDir, models, last, labelFiles, domainRun, session>>

\* ui/vecto_predict.py lines 88-100: the four calls inside one try block
predict_button_order == <<"predict_domain", "predict_country", "predict_tech", "predict_resultat">>

predict_button ==
  \E proba \in ProbaMatrices(ScoredRows(vectFile), Len(models.domain.classes)) :
    LET d == predict_domain_run(vectFile, models.domain, proba)
        steps == until_raise(predict_steps(predict_button_order, vectFile, d))
    IN /\ predFiles' = written(steps, d)
       /\ out' = [op |-> "predict_button", steps |-> steps, planned |-> predict_button_order]
       /\ UNCHANGED <<inputDir, vectFile, models, last, labelFiles, domainRun, session>>

InitDriver ==
  /\ inputDir \in Directories
  /\ vectFile \in {NoFile} \cup {to_csv(t, ReaderSep) : t \in StoredTables}
  /\ vectFile.exists => inputDir \in SyncedDirs
  /\ models \in ModelSets
  /\ predFiles = [a \in Axes |-> NoFile]
  /\ last = [op |-> "none", status |-> "", results |-> EmptyDF, X |-> EmptyDF,
             probs |-> <<>>]
  /\ labelFiles \in {[[p \in LabelPaths |-> NoFile] EXCEPT ![EvalLabels] = f] :
                       f \in {NoFile} \cup StoredLabels}
  /\ out = NoOut
  /\ domainRun = [a \in Range(DomainArtifacts) |-> 0]
  /\ session = NoSession

NextDriver ==
  \/ main_file
  \/ predict_button

SpecDriver == InitDriver /\ [][NextDriver]_vars

\* -------------------------------------------------------------- label store
MaxDecks == 2

\* the PDF files of data/decks, in the order of os.listdir
DeckNames == <<<<"x", ".", "pdf">>, <<"y", ".", "pdf">>, <<"z", ".", "pdf">>>>
all_decks == SubSeq(DeckNames, 1, MaxDecks)

\* the columns ui/train.py gives a new label table (line 69) and the row it
\* appends (lines 141-147)
ui_columns == <<DOC, <<"tech">>, <<"domain">>, <<"country">>, <<"result">>>>
\* the columns save_corrections gives a new table (line 59) and sets (63-64)
corrections_columns == <<DOC, <<"tech">>, <<"domain">>, <<"country">>, <<"resultat">>>>

\* the labels an operator gives a deck: tech, domain, country, result taken
\* from TECHS, DOMAINS, COUNTRIES, RESULTS
LabelChoices ==
  { <<<<"soft">>, <<"energy transition">>, <<"benelux">>, <<"Unfavorable">>>>,
    <<<<"hard">>, <<"new materials">>, <<"france">>, <<"Out">>>> }

\* pd.read_csv(LABELED_CSV, sep=";") or the empty table (ui/train.py 66-69)
ui_labeled_df ==
  IF labelFiles[TrainLabels].exists THEN read_csv(labelFiles[TrainLabels], ReaderSep)
  ELSE [cols |-> ui_columns, rows |-> <<>>]

\* the doc column of a table
doc_values(df) == [i \in 1..Len(df.rows) |-> df.rows[i][ColIndex(df.cols, DOC)]]

\* st.session_state.remaining_decks, set on the first run of the page to the
\* decks without a row in the table (lines 75-76)
remaining_decks ==
  IF session.started THEN session.remaining_decks
  ELSE SelectSeq(all_decks, LAMBDA f : f \notin Range(doc_values(ui_labeled_df)))

\* the Validate button (lines 131-154): appends the row, rewrites the file
ui_validate ==
  \E choice \in LabelChoices :
    /\ DOC \in Range(ui_labeled_df.cols)
    /\ remaining_decks # <<>>
    /\ LET current_deck == remaining_decks[1]
           labeled_df == [cols |-> ui_labeled_df.cols,
                          rows |-> Append(ui_labeled_df.rows,
                                          [j \in 1..Len(ui_labeled_df.cols) |->
                                             IF ui_labeled_df.cols[j] \in Range(ui_columns)
                                               THEN (<<current_deck>> \o choice)
                                                      [ColIndex(ui_columns, ui_labeled_df.cols[j])]
                                               ELSE <<>>])]
       IN /\ labelFiles' = [labelFiles EXCEPT ![TrainLabels] = to_csv(labeled_df, ";")]
          /\ session' = [started |-> TRUE, remaining_decks |-> Tail(remaining_decks)]
          /\ out' = [op |-> "ui_validate", status |-> "returned", doc |-> current_deck,
                     labels |-> choice]
    /\ UNCHANGED <<inputDir, vectFile, models, predFiles, last, domainRun>>

\* the Ignore button (lines 158-161): next deck, nothing saved
ui_ignore ==
  /\ DOC \in Range(ui_labeled_df.cols)
  /\ remaining_decks # <<>>
  /\ session' = [started |-> TRUE, remaining_decks |-> Tail(remaining_decks)]
  /\ out' = [op |-> "ui_ignore", status |-> "returned", doc |-> remaining_decks[1]]
  /\ UNCHANGED <<inputDir, vectFile, models, predFiles, last, labelFiles, domainRun>>

\* a new browser session opens the page
ui_new_session ==
  /\ session.started
  /\ session' = NoSession
  /\ out' = [op |-> "ui_new_session", status |-> "returned", doc |-> <<>>]
  /\ UNCHANGED <<inputDir, vectFile, models, predFiles, last, labelFiles, domainRun>>

\* save_corrections(deck_name, corrections) of model_train.py (lines 56-70):
\* reads and writes LABELED_CSV with pandas' default delimiter
save_corrections_run(deck_name, corrections, file) ==
  LET df == IF file.exists THEN read_csv(file, DefaultSep)
            ELSE [cols |-> corrections_columns, rows |-> <<>>]
      row == <<deck_name>> \o corrections
      cell(c) == IF c \in Range(corrections_columns)
                   THEN row[ColIndex(corrections_columns, c)] ELSE <<>>
  IN IF DOC \notin Range(df.cols) THEN [status |-> "KeyError", file |-> file]
     ELSE IF deck_name \in Range(doc_values(df))
       THEN [status |-> "returned",
             file |-> to_csv([cols |-> df.cols,
                              rows |-> [i \in 1..Len(df.rows) |->
                                          IF doc_values(df)[i] = deck_name
                                            THEN [j \in 1..Len(df.cols) |->
                                                    IF df.cols[j] \in Range(corrections_columns)
                                                      THEN cell(df.cols[j]) ELSE df.rows[i][j]]
                                            ELSE df.rows[i]]], DefaultSep)]
     ELSE [status |-> "returned",
           file |-> to_csv([cols |-> df.cols,
                            rows |-> Append(df.rows, [j \in 1..Len(df.cols) |-> cell(df.cols[j])])],
                           DefaultSep)]

save_corrections ==
  \E i \in 1..MaxDecks, corrections \in LabelChoices :
    LET run == save_corrections_run(all_decks[i], corrections, labelFiles[CorrectionLabels])
    IN /\ labelFiles' = [labelFiles EXCEPT ![CorrectionLabels] = run.file]
       /\ out' = [op |-> "save_corrections", status |-> run.status, doc |-> all_decks[i],
                  labels |-> corrections]
       /\ UNCHANGED <<inputDir, vectFile, models, predFiles, last, domainRun, session>>

\* data/labeled.csv as the checkout may hold it: absent, or with the first
\* deck labelled
InitLabel ==
  /\ Idle
  /\ vectFile = NoFile
  /\ predFiles = [a \in Axes |-> NoFile]
  /\ \E f \in {NoFile} \cup {to_csv([cols |-> ui_columns, rows |-> <<<<all_decks[1]>> \o c>>],
                                      ReaderSep) : c \in LabelChoices} :
       labelFiles = [[p \in LabelPaths |-> NoFile] EXCEPT ![TrainLabels] = f]

NextLabel ==
  \/ ui_validate
  \/ ui_ignore
  \/ ui_new_session
  \/ save_corrections

SpecLabel == InitLabel /\ [][NextLabel]_vars

\* ------------------------------------------------------------ train_result
\* allowed_labels (line 54), in the order of the forest's classes_
allowed_labels == <<<<"Interessant">>, <<"Out">>, <<"Unfavorable">>, <<"Very Unfavorable">>>>

\* df[df[c].isin(values)].reset_index(drop=True)
isin_rows(df, c, values) ==
  [cols |-> df.cols,
   rows |-> SelectSeq(df.rows, LAMBDA r : r[ColIndex(df.cols, c)] \in values)]

NoResultFit == [train_docs |-> <<>>, y |-> <<>>, features |-> <<>>]

\* train_result up to clf.fit (lines 48-77): the allow-list filter, the two
\* isin filters, and the positional pairing of rows and labels by fit, which
\* raises ValueError when the two lengths differ or are zero
train_result_run(vectors, labels) ==
  IF ~vectors.exists \/ ~labels.exists THEN [status |-> "FileNotFoundError"] @@ NoResultFit
  ELSE
    LET X == read_csv(vectors, ReaderSep)
        all_labels == read_csv(labels, ReaderSep)
    IN IF <<"result">> \notin Range(all_labels.cols) \/ DOC \notin Range(all_labels.cols)
            \/ DOC \notin Range(X.cols)
         THEN [status |-> "KeyError"] @@ NoResultFit
       ELSE
         LET df_labels == isin_rows(all_labels, <<"result">>, Range(allowed_labels))
             X_train_vectors == isin_rows(X, DOC, Range(doc_values(df_labels)))
             kept == isin_rows(df_labels, DOC, Range(doc_values(X_train_vectors)))
             y_train_labels == [i \in 1..Len(kept.rows) |->
                                  kept.rows[i][ColIndex(kept.cols, <<"result">>)]]
             fit == [train_docs |-> doc_values(X_train_vectors),
                     y |-> y_train_labels,
                     features |-> DropCol(X_train_vectors, DOC).cols]
         IN IF Len(y_train_labels) = 0 \/ Len(y_train_labels) # Len(X_train_vectors.rows)
              THEN [status |-> "ValueError"] @@ fit
            ELSE [status |-> "returned"] @@ fit

\* train_result run to its end: joblib.dump(clf, MODEL_PATH) (line 86)
train_result ==
  LET run == train_result_run(vectFile, labelFiles[TrainLabels])
  IN /\ out' = [op |-> "train_result"] @@ run
     /\ models' = IF run.status = "returned"
                    THEN [models EXCEPT !.resultat =
                            [features |-> run.features,
                             classes  |-> SelectSeq(allowed_labels,
                                                    LAMBDA c : c \in Range(run.y))]]
                    ELSE models
     /\ UNCHANGED <<inputDir, vectFile, predFiles, last, labelFiles, domainRun, session>>

\* the feature table of the decks, its rows in either order of os.listdir;
\* data/labeled.csv absent, or holding the first deck with a result or with
\* an empty result cell
InitResult ==
  /\ Idle
  /\ vectFile \in
       {to_csv(t, ReaderSep) :
          t \in { [cols |-> <<DOC, <<"energy">>, <<"solar">>>>,
                   rows |-> << <<all_decks[1], One, Zero>>, <<all_decks[2], Zero, One>> >>],
                  [cols |-> <<DOC, <<"energy">>, <<"solar">>>>,
                   rows |-> << <<all_decks[2], Zero, One>>, <<all_decks[1], One, Zero>> >>] }}
  /\ predFiles = [a \in Axes |-> NoFile]
  /\ \E f \in {NoFile}
              \cup {to_csv([cols |-> ui_columns, rows |-> <<<<all_decks[1]>> \o c>>],
                           ReaderSep) : c \in LabelChoices}
              \cup {to_csv([cols |-> ui_columns,
                            rows |-> <<<<all_decks[1], <<"hard">>, <<>>, <<>>, <<>>>>>>],
                           ReaderSep)} :
       labelFiles = [[p \in LabelPaths |-> NoFile] EXCEPT ![TrainLabels] = f]

NextResult ==
  \/ ui_validate
  \/ ui_ignore
  \/ ui_new_session
  \/ train_result

SpecResult == InitResult /\ [][NextResult]_vars

\* ------------------------------------------------- training, then inference
\* feature files of two documents: one whose vocabulary has the terms
\* "country", "domain" and "tech", one without them and with an empty cell
PipelineFiles ==
  {to_csv(t, ReaderSep) : t \in
  { [cols |-> <<DOC, <<"country">>, <<"domain">>, <<"energy">>, <<"tech">>>>,
     rows |-> << <<<<"d1">>, One, Zero, One, One>>,
                 <<<<"d2">>, Zero, One, One, Zero>> >>],
    [cols |-> <<DOC, <<"energy">>, <<"solar">>>>,
     rows |-> << <<<<"d1">>, One, Zero>>,
                 <<<<"d2">>, <<>>, One>> >>] }}

\* sync_repo(repo_path, push=False): git pull replaces the feature table
sync_repo ==
  /\ vectFile' \in PipelineFiles \ {vectFile}
  /\ out' = [op |-> "sync_repo", status |-> "returned"]
  /\ UNCHANGED <<inputDir, models, predFiles, last, labelFiles, domainRun, session>>

\* data/labeled.csv holds both documents
InitPipeline ==
  /\ Idle
  /\ vectFile \in PipelineFiles
  /\ predFiles = [a \in Axes |-> NoFile]
  /\ labelFiles = [[p \in LabelPaths |-> NoFile] EXCEPT ![TrainLabels] =
       to_csv([cols |-> ui_columns,
               rows |-> << <<<<"d1">>, <<"hard">>, <<"energy transition">>, <<"france">>, <<"Out">>>>,
                           <<<<"d2">>, <<"hard">>, <<"new materials">>, <<"germany">>,
                             <<"Interessant">>>> >>], ReaderSep)]

NextPipeline ==
  \/ train_country
  \/ train_domain
  \/ sync_repo
  \/ predict_country
  \/ predict_domain

SpecPipeline == InitPipeline /\ [][NextPipeline]_vars

\* ------------------------------------------------------------- properties
Rows == last.results.rows
TxtFiles == {f \in inputDir : Len(f.name) >= 2 /\ SubSeq(f.name, Len(f.name) - 1, Len(f.name)) = <<".", "txt">>}

\* C1: in predict_tech the label of every document is decided by the two
\* independent tests h >= 0.5 and s >= 0.5: both / hard / soft / unknown.
C1_TechLabelIsThresholdTable ==
  last.op = "predict_tech" =>
    \A i \in 1..Len(Rows) :
      LET h == last.probs[i][1]
          s == last.probs[i][2]
          lab == Rows[i].predicted
      IN /\ lab \in {<<"both">>, <<"hard">>, <<"soft">>, <<"unknown">>}
         /\ (lab = <<"both">>) <=> (h >= 50 /\ s >= 50)
         /\ (lab = <<"hard">>) <=> (h >= 50 /\ s < 50)
         /\ (lab = <<"soft">>) <=> (h < 50 /\ s >= 50)
         /\ (lab = <<"unknown">>) <=> (h < 50 /\ s < 50)

C1_Witness ==
  /\ last.op = "predict_tech" /\ last.status = "returned"
  /\ \E i, j \in 1..Len(Rows) :
       /\ Rows[i].predicted = <<"both">> /\ last.probs[i] = <<50, 50>>
       /\ Rows[j].predicted = <<"hard">> /\ last.probs[j] = <<50, 49>>

\* C2: in predict_country the category is "unknown" whenever the arg-max
\* probability (the reported confidence) is below 0.3 and the decoded arg-max
\* class otherwise; nothing else is emitted.
C2_CountryUnknownBelowThreshold ==
  last.op = "predict_country" =>
    \A i \in 1..Len(Rows) :
      LET p == last.probs[i]
          best == CHOOSE x \in Range(p) : \A y \in Range(p) : y <= x
          first == CHOOSE k \in 1..Len(p) : p[k] = best /\ \A j \in 1..(k - 1) : p[j] < best
      IN /\ Rows[i].confidence = best
         /\ best < 30 => Rows[i].predicted = <<"unknown">>
         /\ best >= 30 => Rows[i].predicted = models.country.classes[first]

C2_Witness ==
  /\ last.op = "predict_country"
  /\ \E i, j \in 1..Len(Rows) :
       /\ Rows[i].confidence = 29 /\ Rows[i].predicted = <<"unknown">>
       /\ Rows[j].confidence = 30 /\ Rows[j].predicted = <<"france">>

\* C3: in predict_tech the reported confidence is max(hard, soft) whatever the
\* label, so the label is "unknown" exactly when the confidence is below 0.5.
C3_TechConfidenceIsMax ==
  last.op = "predict_tech" =>
    \A i \in 1..Len(Rows) :
      LET h == last.probs[i][1]
          s == last.probs[i][2]
      IN /\ Rows[i].confidence >= h /\ Rows[i].confidence >= s
         /\ Rows[i].confidence \in {h, s}
         /\ (Rows[i].predicted = <<"unknown">>) <=> (Rows[i].confidence < 50)

C3_Witness ==
  /\ last.op = "predict_tech" /\ last.status = "returned"
  /\ \E i, j \in 1..Len(Rows) :
       /\ Rows[i].predicted = <<"unknown">> /\ Rows[i].confidence = 49
       /\ Rows[j].predicted = <<"soft">> /\ Rows[j].confidence = 100
       /\ last.probs[j][1] < 50

\* C4: a vectorize_text run on a directory without any .txt file ends with the
\* error and leaves the feature table file as it was; the file never holds a
\* table without rows.
C4_EmptyCorpusFails ==
  [][(last'.op = "vectorize_text" /\ TxtFiles = {})
       => (last'.status = "ValueError" /\ vectFile' = vectFile
           /\ (vectFile'.exists => Len(vectFile'.lines) >= 2))]_vars

C4_Witness ==
  /\ last.op = "vectorize_text" /\ last.status = "ValueError"
  /\ TxtFiles = {} /\ inputDir # {}
  /\ vectFile.exists

\* C5: after a successful vectorize_text run the feature table has exactly one
\* row per .txt file of the directory and none for other files, the id of a
\* row is the file's stem followed by ".pdf", and the first column is "doc".
C5_OneRowPerTextFile ==
  (last.op = "vectorize_text" /\ last.status = "returned") =>
    LET df == read_csv(vectFile, DefaultSep)
        ids == {SubSeq(f.name, 1, Len(f.name) - 2) \o <<".", "pdf">> : f \in TxtFiles}
    IN /\ df.cols[1] = DOC
       /\ Len(df.rows) = Cardinality(TxtFiles)
       /\ {df.rows[i][1] : i \in 1..Len(df.rows)} = ids

C5_Witness ==
  /\ last.op = "vectorize_text" /\ last.status = "returned"
  /\ TxtFiles # inputDir
  /\ \E i \in 2..Len(vectFile.lines) :
       Split(vectFile.lines[i], DefaultSep)[1] = <<"a", ".", "b", ".", "pdf">>

OpOf == [tech |-> "predict_tech", domain |-> "predict_domain",
         country |-> "predict_country", resultat |-> "predict_resultat"]
PredictedColumn == [tech |-> <<"predicted_tech">>, domain |-> <<"predicted_domain">>,
                    country |-> <<"predicted_country">>, resultat |-> <<"predicted_resultat">>]

\* C6: the feature file written by vectorize_text is read back, with the
\* delimiter of the train_* and predict_* functions, as a "doc" column followed
\* by one column per vocabulary term.
C6_HandOffReadsBack ==
  (last.op = "vectorize_text" /\ last.status = "returned") =>
    LET df == read_csv(vectFile, ReaderSep)
    IN /\ df.cols[1] = DOC
       /\ Len(df.cols) >= 2
       /\ \A j \in 2..Len(df.cols) : Len(df.cols[j]) = 1 /\ df.cols[j][1] \in Range(TermOrder)

\* C7: when the predict function of an axis returns, the prediction file of
\* the axis exists and holds one row per document of the feature table.
C7_PredictionFileWritten ==
  \A a \in Axes :
    (last.op = OpOf[a] /\ last.status = "returned") =>
      /\ predFiles[a].exists
      /\ NRows(predFiles[a]) = NRows(vectFile)
      /\ \A i \in 1..NRows(vectFile) :
           Split(predFiles[a].lines[i + 1], ";")[1]
             = Split(vectFile.lines[i + 1], ReaderSep)[1]

\* C8: the result table built by the predict function of every axis has the
\* columns doc, predicted_<axis>, confidence_score, and the country table has
\* one more column per class of the label encoder.
C8_ResultColumnNames ==
  \A a \in Axes :
    (last.op = OpOf[a] /\ last.results.cols # <<>>) =>
      /\ SubSeq(last.results.cols, 1, 3) = <<DOC, PredictedColumn[a], <<"confidence_score">>>>
      /\ Len(last.results.cols) = IF a = "country" THEN 3 + Len(models.country.classes) ELSE 3

\* C9: predict_resultat on a feature table that lacks trained columns or has
\* extra ones feeds the model exactly the trained columns in training order,
\* 0 in the missing ones, and runs to completion without an exception.
C9_ResultatAlignsAndCompletes ==
  (last.op = "predict_resultat" /\ vectFile.exists) =>
    LET df == read_csv(vectFile, ReaderSep)
        F == models.resultat.features
    IN /\ last.status = "returned"
       /\ last.X.cols = F
       /\ Len(last.X.rows) = Len(df.rows)
       /\ \A i \in 1..Len(df.rows), j \in 1..Len(F) :
            last.X.rows[i][j] = IF \E c \in 1..Len(df.cols) : df.cols[c] = F[j]
                                  THEN df.rows[i][CHOOSE c \in 1..Len(df.cols) : df.cols[c] = F[j]]
                                  ELSE Zero

\* C10: on every feature table and every trained feature-name list, the
\* alignment of predict_country and the alignment of predict_resultat yield
\* the same columns in the same order with the same values.
C10_AlignmentsEquivalent ==
  vectFile.exists =>
    \A F \in {FeaturesA, FeaturesB} :
      LET df == read_csv(vectFile, ReaderSep)
      IN /\ align_resultat(df, F).err = ""
         /\ align_resultat(df, F).X = align_country(df, F)


\* ------------------------------------------------- properties of evaluate
\* the tables evaluate read in the run that just ended
EvalPred == read_csv(PredFileOf(out.label_col), ReaderSep)
EvalLabel == read_csv(labelFiles[EvalLabels], ReaderSep)
EvalRan == out.op = "evaluate" /\ out.status \notin {"FileNotFoundError", "KeyError"}

\* the pairs (prediction row, label row) of one document whose predicted and
\* actual values are both filled in
EvaluatedPairs ==
  LET p == ColIndex(EvalPred.cols, predict_col(out.label_col))
      a == ColIndex(EvalLabel.cols, <<out.label_col>>)
  IN {ij \in (1..Len(EvalPred.rows)) \X (1..Len(EvalLabel.rows)) :
        /\ EvalPred.rows[ij[1]][1] = EvalLabel.rows[ij[2]][1]
        /\ EvalPred.rows[ij[1]][p] # <<>>
        /\ EvalLabel.rows[ij[2]][a] # <<>>}

\* C11: evaluate never reports an accuracy over zero rows: when no row is
\* left to evaluate (no common document, or every joined row has an empty
\* actual or predicted value) it fails with the NoOverlap error and reports
\* nothing.
C11_NoOverlapWhenNothingLeft ==
  (EvalRan /\ EvaluatedPairs = {}) => (out.status = "NoOverlap" /\ ~out.reported)

\* C12: the accuracy is the number of evaluated rows whose prediction equals
\* the actual label over the number of rows left after the empty values are
\* dropped, and the misclassified list is exactly the rows left whose
\* prediction differs from the actual label.
C12_AccuracyAndMisclassified ==
  (out.op = "evaluate" /\ out.status = "returned") =>
    LET p == ColIndex(EvalPred.cols, predict_col(out.label_col))
        a == ColIndex(EvalLabel.cols, <<out.label_col>>)
        Right == {ij \in EvaluatedPairs :
                    EvalPred.rows[ij[1]][p] = EvalLabel.rows[ij[2]][a]}
        Wrong == EvaluatedPairs \ Right
    IN /\ out.total = Cardinality(EvaluatedPairs)
       /\ out.correct = Cardinality(Right)
       /\ out.accuracy = (Cardinality(Right) * 100) \div Cardinality(EvaluatedPairs)
       /\ Len(out.df_wrong) = Cardinality(Wrong)
       /\ Range(out.df_wrong) =
            {<<EvalPred.rows[ij[1]][1], EvalPred.rows[ij[1]][p], EvalLabel.rows[ij[2]][a]>> :
               ij \in Wrong}

C12_Witness ==
  /\ out.op = "evaluate" /\ out.status = "returned"
  /\ out.total = 2 /\ out.correct = 1 /\ out.accuracy = 50
  /\ Len(out.df_wrong) = 1

RECURSIVE SumSeq(_)
SumSeq(q) == IF q = <<>> THEN 0 ELSE Head(q) + SumSeq(Tail(q))

\* C13: the classes of the confusion matrix are in lexicographic order, and
\* for each of them the row sums to the number of evaluated rows with that
\* actual label and the column to the number of evaluated rows with that
\* predicted label, whatever the predictions are.
C13_ConfusionMatrixSums ==
  (out.op = "evaluate" /\ out.status = "returned") =>
    LET n == Len(out.labels)
    IN /\ \A i, j \in 1..n :
            i < j => ColIndex(LabelOrder, out.labels[i]) < ColIndex(LabelOrder, out.labels[j])
       /\ \A i \in 1..n :
            /\ SumSeq(out.cm[i]) =
                 Cardinality({r \in 1..Len(out.df_eval) : out.df_eval[r][3] = <<out.labels[i]>>})
            /\ SumSeq([k \in 1..n |-> out.cm[k][i]]) =
                 Cardinality({r \in 1..Len(out.df_eval) : out.df_eval[r][2] = <<out.labels[i]>>})

\* -------------------------------------------- properties of train_country
\* the tables train_country and train_domain read
TrainVec == read_csv(vectFile, ReaderSep)
TrainLab == read_csv(labelFiles[TrainLabels], ReaderSep)
TrainReadable ==
  /\ vectFile.exists /\ labelFiles[TrainLabels].exists
  /\ DOC \in Range(TrainVec.cols) /\ DOC \in Range(TrainLab.cols)

\* the pairs (feature row, label row) of one document that has a country
CountryPairs ==
  {ij \in (1..Len(TrainVec.rows)) \X (1..Len(TrainLab.rows)) :
     /\ TrainVec.rows[ij[1]][ColIndex(TrainVec.cols, DOC)]
          = TrainLab.rows[ij[2]][ColIndex(TrainLab.cols, DOC)]
     /\ TrainLab.rows[ij[2]][ColIndex(TrainLab.cols, <<"country">>)] # <<>>}

\* the feature columns of the merged table: the vocabulary terms
TermColumns == {j \in 1..Len(TrainVec.cols) : TrainVec.cols[j] # DOC}

NoFeatureColumn == TermColumns = {}
NoFeatureValue == \A ij \in CountryPairs : \A j \in TermColumns : TrainVec.rows[ij[1]][j] = Zero

\* C14: when the merged feature block has no column or only zeros,
\* train_country fails with the error named NoFeatures or ZeroVariance,
\* before any fit and without writing the persisted model and encoder.
C14_FailsFastOnEmptyFeatures ==
  [][(out'.op = "train_country" /\ TrainReadable /\ (NoFeatureColumn \/ NoFeatureValue))
       => /\ out'.status \in {"NoFeatures", "ZeroVariance"}
          /\ ~out'.fitted
          /\ models' = models]_vars

\* the size of the smallest country class among the training rows
CountryCount(c) ==
  Cardinality({ij \in CountryPairs :
                 TrainLab.rows[ij[2]][ColIndex(TrainLab.cols, <<"country">>)] = c})
SmallestCountryClass ==
  CHOOSE n \in 1..Cardinality(CountryPairs) :
    /\ \E c \in {<<"france">>, <<"germany">>} : CountryCount(c) = n
    /\ \A c \in {<<"france">>, <<"germany">>} : CountryCount(c) = 0 \/ CountryCount(c) >= n

\* C15: cross-validation is run exactly when the smallest class has at
\* least 2 members, with min(3, smallest class size) folds, which is 2 or 3;
\* otherwise it is skipped.
C15_CrossValidationFolds ==
  (out.op = "train_country" /\ out.validated) =>
    /\ (out.cv \in {"ran", "raised"}) <=> (SmallestCountryClass >= 2)
    /\ (out.cv = "skipped") <=> (SmallestCountryClass < 2)
    /\ out.cv \in {"ran", "raised"} =>
         /\ out.n_splits = (IF SmallestCountryClass <= 3 THEN SmallestCountryClass ELSE 3)
         /\ out.n_splits \in {2, 3}

C15_Witness ==
  /\ out.op = "train_country" /\ out.validated
  /\ out.cv = "ran" /\ SmallestCountryClass = 2 /\ out.n_splits = 2
  /\ Cardinality(CountryPairs) = 4

\* C16: once the input validation has passed, the final fit and the saving
\* of model and encoder happen, whether cross-validation ran, was skipped or
\* raised.
C16_FitAndSaveAfterValidation ==
  (out.op = "train_country" /\ out.validated) =>
    /\ out.cv \in {"ran", "skipped", "raised"}
    /\ out.status = "returned"
    /\ out.fitted
    /\ models.country = [features |-> out.X.cols, classes |-> encoder_classes(out.y_raw)]

C16_Witness ==
  /\ out.op = "train_country" /\ out.validated
  /\ out.cv = "raised" /\ out.fitted
  /\ models.country.classes = <<<<"france">>, <<"germany">>>>

\* --------------------------------------------- properties of train_domain
\* C17: the seven domain artifacts are persisted as one unit: whenever
\* predict_domain may load them, also after a train_domain that failed or
\* was killed partway, the seven files come from the same training run.
C17_ArtifactsFromOneRun ==
  \A a, b \in Range(DomainArtifacts) : domainRun[a] = domainRun[b]

\* ------------------------------------------------ properties of the drivers
\* C19: the four axes are independent in every driver: when the step of one
\* axis raises, the steps of the remaining axes are still executed.
C19_AxesIndependent ==
  (out.op \in {"main_file", "predict_button"}
     /\ \E i \in 1..Len(out.steps) :
          out.steps[i].step \in Range(out.planned) /\ out.steps[i].status # "returned")
    => \A a \in Range(out.planned) : \E i \in 1..Len(out.steps) : out.steps[i].step = a

\* --------------------------------------------- properties of the label store
\* C20: every operation that writes the label store (save_corrections, the
\* Validate button) writes a semicolon-separated table with the columns doc,
\* tech, domain, country, result: the delimiter and names the train
\* functions and the evaluator read.
C20_LabelStoreFormat ==
  \A p \in {TrainLabels, CorrectionLabels} :
    labelFiles[p].exists =>
      Range(read_csv(labelFiles[p], ReaderSep).cols)
        = {DOC, <<"tech">>, <<"domain">>, <<"country">>, <<"result">>}

\* the label store as the train functions read it: the rows of
\* data/labeled.csv cut at ";"
LabelStoreRows(files) ==
  IF files[TrainLabels].exists THEN read_csv(files[TrainLabels], ReaderSep).rows ELSE <<>>

\* C21: after any labelling operation (save_corrections, Validate, Ignore)
\* the label store holds at most one row per document, the row of the
\* document just labelled carries the labels of that operation, and the rows
\* of the other documents are neither changed nor deleted.
C21_OneCurrentRowPerDocument ==
  [][LET before == LabelStoreRows(labelFiles)
         after  == LabelStoreRows(labelFiles')
     IN /\ \A i, j \in 1..Len(after) : after[i][1] = after[j][1] => i = j
        /\ (out'.op \in {"save_corrections", "ui_validate"} /\ out'.status = "returned")
             => \E i \in 1..Len(after) : after[i] = <<out'.doc>> \o out'.labels
        /\ out'.op \in {"save_corrections", "ui_validate", "ui_ignore"}
             => \A i \in 1..Len(before) :
                  before[i][1] # out'.doc => \E j \in 1..Len(after) : after[j] = before[i]]_vars

\* ------------------------------------------- properties of predict_domain
\* C22: predict_domain applies no confidence gate: the predicted domain of
\* every document is the class of the largest probability and the confidence
\* score is that probability, however low; "unknown" is never substituted.
C22_DomainIsArgMax ==
  (last.op = "predict_domain" /\ last.status = "returned") =>
    \A i \in 1..Len(Rows) :
      LET best == CHOOSE p \in Range(last.probs[i]) : \A q \in Range(last.probs[i]) : q <= p
          first == CHOOSE k \in 1..Len(last.probs[i]) :
                     last.probs[i][k] = best /\ \A j \in 1..(k - 1) : last.probs[i][j] < best
      IN /\ Rows[i].predicted = models.domain.classes[first]
         /\ Rows[i].confidence = best
         /\ Rows[i].predicted # <<"unknown">>

C22_Witness ==
  /\ last.op = "predict_domain" /\ last.status = "returned"
  /\ \E i \in 1..Len(Rows) :
       /\ last.probs[i] = <<50, 50>>
       /\ Rows[i].confidence = 50
       /\ Rows[i].predicted = models.domain.classes[1]

\* C23: the matrix predict_domain gives the selector has exactly the columns
\* of the retained-column list train_domain saved, in the saved order; a
\* retained column the feature table lacks is all zero, a column of the table
\* that is not in the list is left out, and a cell that is no number is 0.
SavedColumns == models.domain.nonzero_cols
DomainTable == read_csv(vectFile, ReaderSep)
C23_SelectorInputFollowsSavedList ==
  [][(last'.op = "predict_domain" /\ last'.status = "returned" /\ last' # last) =>
       /\ last'.X.cols = SavedColumns
       /\ Len(last'.X.rows) = Len(DomainTable.rows)
       /\ \A i \in 1..Len(DomainTable.rows) :
            /\ Len(last'.X.rows[i]) = Len(SavedColumns)
            /\ \A j \in 1..Len(SavedColumns) :
                 LET at == {c \in 1..Len(DomainTable.cols) : DomainTable.cols[c] = SavedColumns[j]}
                 IN last'.X.rows[i][j] =
                      IF at = {} THEN Zero
                      ELSE LET cell == DomainTable.rows[i][CHOOSE c \in at : TRUE]
                           IN IF cell \in {Zero, One} THEN cell ELSE Zero]_vars

\* the list saved by a training run on the first table, applied to the
\* second one: columns added as zeros, "solar" left out, an empty cell read as 0
C23_Witness ==
  /\ out.op = "sync_repo"
  /\ last.op = "predict_domain" /\ last.status = "returned"
  /\ domainRun["domain_nonzero_columns"] = 1
  /\ last.X.cols = SavedColumns
  /\ \E j \in 1..Len(SavedColumns) : SavedColumns[j] \notin Range(DomainTable.cols)
  /\ <<"solar">> \in Range(DomainTable.cols) \ Range(SavedColumns)
  /\ \E i \in 1..Len(DomainTable.rows), j \in 1..Len(SavedColumns) :
       /\ SavedColumns[j] = <<"energy">>
       /\ DomainTable.rows[i][ColIndex(DomainTable.cols, <<"energy">>)] = <<>>
       /\ last.X.rows[i][j] = Zero

\* ---------------------------------------------- properties of train_domain
\* C24: whenever train_domain reaches feature selection, the number of
\* selected columns and the number of SVD components are both at least 1 and
\* at most the number of columns they are applied to; the selector and the
\* SVD are never given a zero or negative count.
ReachedSelection ==
  out.op = "train_domain" /\ out.stage \in {"selection", "centroids", "svd", "fit", "dump"}
C24_SelectionCountsInRange ==
  ReachedSelection =>
    /\ 1 <= out.k /\ out.k <= Len(out.nonzero_cols)
    /\ 1 <= out.n_comp /\ out.n_comp <= out.k

\* ---------------------------------------------- properties of train_result
\* C25: the training set of train_result is the join of the feature table
\* and the allow-listed rows of the label store on the document id: there are
\* as many labels as feature rows, and the i-th label is the result the label
\* store gives the document of the i-th feature row.
ResultStore == read_csv(labelFiles[TrainLabels], ReaderSep)
ResultOf(doc) ==
  {ResultStore.rows[r][ColIndex(ResultStore.cols, <<"result">>)] :
     r \in {q \in 1..Len(ResultStore.rows) : ResultStore.rows[q][1] = doc}}
C25_LabelsAlignedWithRows ==
  (out.op = "train_result" /\ out.status \in {"returned", "ValueError"}) =>
    /\ Len(out.y) = Len(out.train_docs)
    /\ \A i \in 1..Len(out.train_docs) : out.y[i] \in ResultOf(out.train_docs[i])

\* ----------------------------------------------- properties of predict_tech
\* C26: when one of the two binary classifiers of predict_tech has a single
\* class (its probability output has one column) its positive probability is
\* 0 for every document: its label never fires, and the combined label and
\* the confidence are those of the other classifier alone.
OtherAlone(i, degenerate, other, name) ==
  /\ last.probs[i][degenerate] = 0
  /\ Rows[i].confidence = last.probs[i][other]
  /\ Rows[i].predicted = IF last.probs[i][other] >= 50 THEN <<name>> ELSE <<"unknown">>
C26_DegenerateClassifierNeverFires ==
  (last.op = "predict_tech" /\ last.status = "returned") =>
    \A i \in 1..Len(Rows) :
      /\ models.tech.hardClasses = 1 => OtherAlone(i, 1, 2, "soft")
      /\ models.tech.softClasses = 1 => OtherAlone(i, 2, 1, "hard")

C26_Witness ==
  /\ last.op = "predict_tech" /\ last.status = "returned"
  /\ models.tech.softClasses = 1
  /\ \E i, j \in 1..Len(Rows) :
       /\ Rows[i].predicted = <<"hard">> /\ Rows[i].confidence >= 50
       /\ Rows[j].predicted = <<"unknown">> /\ Rows[j].confidence < 50

\* ------------------------------------- properties of the three trainings
TrainOps == {"train_country", "train_domain", "train_tech"}
AxisOf == [train_country |-> <<"country">>, train_domain |-> <<"domain">>,
           train_tech |-> <<"tech">>]
\* the feature names the estimator saved by the last training was fitted on
FittedNames ==
  CASE out.op = "train_country" -> out.X.cols
    [] out.op = "train_domain"  -> out.nonzero_cols
    [] out.op = "train_tech"    -> out.features
TermNames == {TrainVec.cols[j] : j \in TermColumns}

\* C27: every feature name a country, domain or technology model is fitted
\* on is a term column of the feature table it was trained from: no column
\* of the label store and no column renamed by the join is among them.
C27_FittedOnTermColumnsOnly ==
  (out.op \in TrainOps /\ out.status = "returned") => Range(FittedNames) \subseteq TermNames

\* the label cells of the axis of the documents that are in both tables
SharedLabels(axis) ==
  {TrainLab.rows[i][ColIndex(TrainLab.cols, axis)] :
     i \in {r \in 1..Len(TrainLab.rows) :
              /\ TrainLab.rows[r][ColIndex(TrainLab.cols, axis)] # <<>>
              /\ \E v \in 1..Len(TrainVec.rows) :
                   TrainVec.rows[v][ColIndex(TrainVec.cols, DOC)]
                     = TrainLab.rows[r][ColIndex(TrainLab.cols, DOC)]}}

\* C30: when the feature table and the label store share a labelled
\* document, the three trainings find their target in the label store's
\* column of the axis, whether or not the vocabulary has a term of that name:
\* none ends in the KeyError of a missing column.
C30_TargetIsLabelStoreColumn ==
  (out.op \in TrainOps /\ TrainReadable /\ SharedLabels(AxisOf[out.op]) # {}) =>
    /\ out.status # "KeyError"
    /\ out.op = "train_country" /\ out.status = "returned"
         => Range(out.y_raw) \subseteq SharedLabels(<<"country">>)
    /\ out.op = "train_tech" /\ out.status = "returned"
         => Range(out.target) \subseteq SharedLabels(<<"tech">>)

\* ------------------------------------- properties of training, then inference
\* the table read at inference feeds the model the term with its own values
FedActual(X, term) ==
  \E j \in 1..Len(X.cols) :
    /\ X.cols[j] = term
    /\ \A i \in 1..Len(X.rows) :
         X.rows[i][j] = TrainVec.rows[i][ColIndex(TrainVec.cols, term)]
\* the terms with a non-zero value in the table
LiveTerms ==
  {c \in TermNames : \E i \in 1..Len(TrainVec.rows) :
                       TrainVec.rows[i][ColIndex(TrainVec.cols, c)] = One}

\* C28: at country and domain inference a vocabulary term that is a column
\* of the table the model was trained from and of the table read at inference
\* reaches the model with the values of the table, never as a column of
\* zeros; this includes a term spelled like a label column.
C28_SharedTermsKeepTheirValues ==
  [][/\ (last' # last /\ last'.op = "predict_country" /\ last'.status # "FileNotFoundError"
           /\ out.op = "train_country" /\ out.status = "returned")
          => \A term \in LiveTerms : FedActual(last'.X, term)
     /\ (last' # last /\ last'.op = "predict_domain" /\ last'.status = "returned"
           /\ out.op = "train_domain" /\ out.status = "returned")
          => \A term \in LiveTerms : FedActual(last'.X, term)]_vars

\* ------------------------------------------------ properties of the evaluator
\* the axis an argument of evaluate stands for
AxisOfArg(label_col) == IF label_col = "result" THEN "resultat" ELSE label_col

\* C29: for each axis, and for the result axis under both names it is called
\* with, evaluate finds the prediction file and the predicted column the
\* axis's predict function names and the column the label store has for the
\* axis: with both files in place it fails neither on a missing file nor on a
\* missing column.
C29_EvaluatorReachable ==
  (out.op = "evaluate" /\ predFiles[AxisOfArg(out.label_col)].exists
     /\ labelFiles[EvalLabels].exists)
    => out.status \notin {"FileNotFoundError", "KeyError"}


====
